---- MODULE Spec2Model ----
(***************************************************************************)
(* Model of the client-side data orchestration of frontend/src/App.jsx:    *)
(* the leaderboard and radar polling tasks of the home view, the product   *)
(* dispatcher, the radar tile resolver, marker derivation, report text     *)
(* selection and the station permalink lookup.                              *)
(*                                                                         *)
(* App.jsx holds three generations of the application one after another:   *)
(*   variant 1  lines    1-450   product selector, fetchProduct            *)
(*   variant 2  lines  452-873   getRowText, RainViewer radar polling       *)
(*   variant 3  lines  875-1073  single page, METAR only                   *)
(* The variable `variant` says which generation is running.                *)
(***************************************************************************)
EXTENDS Integers, Sequences, FiniteSets, TLC

VARIABLES
  variant,      \* which generation of App.jsx runs (fixed in a behaviour)
  mounted,      \* the home view (HomePage, App in variant 3) is mounted
  top,          \* App state: result cap
  product,      \* App state (variant 1): selected product
  pirepHours,   \* App state (variant 1): PIREP lookback window
  conusOnly,    \* App state (variant 1): CONUS filter flag
  rows,         \* home view state: rows of the leaderboard
  generatedAt,  \* home view state: timestamp of the leaderboard
  loading,      \* home view state: loading flag
  err,          \* home view state: error message
  radarUrl,     \* home view state (variant 2): radar tile template
  radarErr,     \* home view state (variant 2): radar error message
  lbTimer,      \* number of interval timers of the leaderboard effect that are set
  radarTimer,   \* number of interval timers of the radar effect that are set
  lbCalls,      \* leaderboard fetches in flight
  radarCalls,   \* radar metadata fetches in flight
  lbSeq,        \* number of load() invocations so far
  radarSeq,     \* number of loadRadar() invocations so far
  lbApplied,    \* history: lbSeq of the load() whose outcome was applied last
  radarApplied, \* history: radarSeq of the loadRadar() applied last
  lbFailed,     \* history: lbSeq of the load() whose failure was applied last
  stMounted,    \* the station view (StationPage) is mounted
  icao,         \* station view: route parameter :icao
  stProduct,    \* station view (variant 1): product of the query string
  stRows,       \* station view state: rows
  stErr,        \* station view state: error message
  stCalls,      \* station view: fetches in flight
  stSeq         \* number of fetches the station view started

homeVars == <<mounted, top, product, pirepHours, conusOnly, rows, generatedAt,
              loading, err, radarUrl, radarErr, lbTimer, radarTimer, lbCalls,
              radarCalls, lbSeq, radarSeq, lbApplied, radarApplied, lbFailed>>
stationVars == <<stMounted, icao, stProduct, stRows, stErr, stCalls, stSeq>>
vars == <<variant, homeVars, stationVars>>

lbVisible == <<rows, generatedAt, err, loading>>
radarVisible == <<radarUrl, radarErr>>

----------------------------------------------------------------------------
(* Bounds of the model.                                                    *)

\* load() invocations in one behaviour
MaxCalls == 3
\* loadRadar() invocations in one behaviour
MaxRadarCalls == 2
\* fetches the station view starts in one behaviour
MaxStationCalls == 2

----------------------------------------------------------------------------
(* JavaScript values: a type tag and a payload.                            *)

JUndef == [t |-> "undefined", v |-> ""]
JNull == [t |-> "null", v |-> ""]
JStr(s) == [t |-> "string", v |-> s]
\* a number, by its decimal text; JSON.parse yields Infinity for "1e999"
JNum(s) == [t |-> "number", v |-> s]
JArr(s) == [t |-> "array", v |-> s]

\* typeof x
TypeOf(x) == IF x.t \in {"null", "array"} THEN "object" ELSE x.t

\* ToBoolean(x) for the values above
Truthy(x) ==
  CASE x.t = "undefined" -> FALSE
    [] x.t = "null" -> FALSE
    [] x.t = "string" -> Len(x.v) # 0
    [] x.t = "number" -> x.v \notin {"0", "NaN"}
    [] OTHER -> TRUE

\* a || b
Or(a, b) == IF Truthy(a) THEN a ELSE b

\* Number.isFinite(x)
IsFiniteNumber(x) == x.t = "number" /\ x.v \notin {"Infinity", "-Infinity", "NaN"}

----------------------------------------------------------------------------
(* Strings the code inspects character by character are sequences of       *)
(* one-character strings.                                                  *)

LowerLetters == <<"a","b","c","d","e","f","g","h","i","j","k","l","m",
                  "n","o","p","q","r","s","t","u","v","w","x","y","z">>
UpperLetters == <<"A","B","C","D","E","F","G","H","I","J","K","L","M",
                  "N","O","P","Q","R","S","T","U","V","W","X","Y","Z">>

UpperChar(c) ==
  IF \E i \in DOMAIN LowerLetters : LowerLetters[i] = c
    THEN UpperLetters[CHOOSE i \in DOMAIN LowerLetters : LowerLetters[i] = c]
    ELSE c

\* String.prototype.toUpperCase
ToUpperCase(s) == [i \in DOMAIN s |-> UpperChar(s[i])]

RECURSIVE Join(_)
\* the characters of s as one string
Join(s) == IF s = <<>> THEN "" ELSE s[1] \o Join(Tail(s))

\* the characters of the identifiers and report texts used below
Chars_kden == <<"k","d","e","n">>
Chars_KDEN == <<"K","D","E","N">>
Chars_KJFK == <<"K","J","F","K">>
Chars_kjfk_sp == <<"k","j","f","k"," ">>
Chars_KXYZ == <<"K","X","Y","Z">>
Chars_PHNL == <<"P","H","N","L">>
Chars_METAR == <<"M","E","T","A","R">>
Chars_taf == <<"t","a","f">>
Chars_PIREP == <<"P","I","R","E","P">>
Chars_SIGMET == <<"S","I","G","M","E","T">>
Chars_UA == <<"U","A"," ","/","O","V">>
Chars_ARP == <<"A","R","P"," ","X">>
Chars_OBS == <<"0","1","5","3","Z">>

----------------------------------------------------------------------------
(* Errors, as the text String(e) gives.                                    *)

Thrown(msg) == [threw |-> TRUE, value |-> msg]
Returned(v) == [threw |-> FALSE, value |-> v]

\* the ways a fetch can fail after the request was issued: no answer, or an
\* answer that is not 2xx
FetchFailures == {"network", "http"}

\* String(e) for a failed leaderboard fetch
FailureText(f) ==
  CASE f = "network" -> "TypeError: Failed to fetch"
    [] f = "http" -> "Error: HTTP 503"

\* String(e) for a failed fetch of the RainViewer metadata
RadarFailureText(f) ==
  CASE f = "network" -> "TypeError: Failed to fetch"
    [] f = "http" -> "Error: RainViewer HTTP 503"

----------------------------------------------------------------------------
(* Product Query Dispatcher.                                               *)

KnownProducts == {"METAR", "TAF", "PIREP"}

\* fetchProduct without its final else: an unknown product falls through to
\* fetch(url) with the initial url ""
FetchProductFallsThrough(p, t, conus, hours) ==
  CASE p = "METAR" ->
         Returned("/api/leaderboard?top=" \o ToString(t) \o "&conus="
                  \o (IF conus THEN "true" ELSE "false"))
    [] p = "TAF" -> Returned("/api/taf?top=" \o ToString(t))
    [] p = "PIREP" ->
         Returned("/api/pirep?top=" \o ToString(t) \o "&hours=" \o ToString(hours))
    [] OTHER -> Returned("")

\* fetchProduct up to its fetch(url): the request it issues, or the error
\* it throws before issuing one
FetchProduct(p, t, conus, hours) ==
  CASE p = "METAR" ->
         Returned("/api/leaderboard?top=" \o ToString(t) \o "&conus="
                  \o (IF conus THEN "true" ELSE "false"))
    [] p = "TAF" -> Returned("/api/taf?top=" \o ToString(t))
    [] p = "PIREP" ->
         Returned("/api/pirep?top=" \o ToString(t) \o "&hours=" \o ToString(hours))
    [] OTHER -> Thrown("Error: Unknown product: " \o p)

\* fetchLeaderboard (variant 2) and the inline fetch of variant 3
FetchLeaderboard(t) ==
  Returned("/api/leaderboard?top=" \o ToString(t) \o "&conus=true")

\* the request load() of the home view issues under the given parameters
LoadRequest(t, p, conus, hours) ==
  IF variant = 1 THEN FetchProduct(p, t, conus, hours) ELSE FetchLeaderboard(t)

----------------------------------------------------------------------------
(* Radar Tile Resolver.                                                    *)

RainViewerSize == 256
RainViewerColor == 2
RainViewerOptions == "1_1"

\* fetchRainViewerLatestTileUrl taking frames[0] for the latest frame
FetchRainViewerFirstFrameTileUrl(data, size, color, options) ==
  LET host == data.host
      frames == IF data.radar.t = "undefined" THEN JUndef ELSE data.radar.v.past
      latest == IF frames.t = "array" /\ Len(frames.v) # 0
                  THEN [t |-> "object", v |-> frames.v[1]]
                  ELSE JNull
      path == IF latest.t = "null" THEN JUndef ELSE latest.v.path
  IN  IF ~Truthy(host) \/ ~Truthy(path)
        THEN Thrown("Error: RainViewer response missing host/path")
        ELSE Returned(host.v \o path.v \o "/" \o ToString(size) \o "/{z}/{x}/{y}/"
                      \o ToString(color) \o "/" \o options \o ".png")

\* fetchRainViewerLatestTileUrl testing the host only: a missing path is
\* interpolated into the template as "undefined"
FetchRainViewerHostOnlyTileUrl(data, size, color, options) ==
  LET host == data.host
      frames == IF data.radar.t = "undefined" THEN JUndef ELSE data.radar.v.past
      latest == IF frames.t = "array" /\ Len(frames.v) # 0
                  THEN [t |-> "object", v |-> frames.v[Len(frames.v)]]
                  ELSE JNull
      path == IF latest.t = "null" THEN JUndef ELSE latest.v.path
  IN  IF ~Truthy(host)
        THEN Thrown("Error: RainViewer response missing host/path")
        ELSE Returned(host.v \o (IF Truthy(path) THEN path.v ELSE "undefined")
                      \o "/" \o ToString(size) \o "/{z}/{x}/{y}/"
                      \o ToString(color) \o "/" \o options \o ".png")

\* fetchRainViewerLatestTileUrl after the metadata document was decoded
FetchRainViewerLatestTileUrl(data, size, color, options) ==
  LET host == data.host
      frames == IF data.radar.t = "undefined" THEN JUndef ELSE data.radar.v.past
      latest == IF frames.t = "array" /\ Len(frames.v) # 0
                  THEN [t |-> "object", v |-> frames.v[Len(frames.v)]]
                  ELSE JNull
      path == IF latest.t = "null" THEN JUndef ELSE latest.v.path
  IN  IF ~Truthy(host) \/ ~Truthy(path)
        THEN Thrown("Error: RainViewer response missing host/path")
        ELSE Returned(host.v \o path.v \o "/" \o ToString(size) \o "/{z}/{x}/{y}/"
                      \o ToString(color) \o "/" \o options \o ".png")

Frame(p) == [path |-> JStr(p)]
MetaDoc(h, past) == [host |-> h, radar |-> [t |-> "object", v |-> [past |-> past]]]

DocAB == MetaDoc(JStr("https://x"), JArr(<<Frame("/a"), Frame("/b")>>))
DocEmpty == MetaDoc(JStr("https://x"), JArr(<<>>))
DocNoHost == MetaDoc(JUndef, JArr(<<Frame("/a")>>))
DocNoRadar == [host |-> JStr("https://x"), radar |-> JUndef]
DocPastNotList == MetaDoc(JStr("https://x"), JStr("/a"))
DocNoPath == MetaDoc(JStr("https://x"), JArr(<<Frame("/a"), [path |-> JUndef]>>))

\* the metadata documents the provider may answer with
MetaDocs == {DocAB, DocEmpty, DocNoHost, DocNoRadar, DocPastNotList, DocNoPath}

----------------------------------------------------------------------------
(* Rows and response bodies.                                               *)

Row(st, lat, lon, text, metar) ==
  [station |-> st, lat |-> lat, lon |-> lon, text |-> text, metar |-> metar]

\* current schema, numeric coordinates
RowKden == Row(JStr(Chars_kden), JNum("39.86"), JNum("-104.67"), JStr(Chars_UA), JUndef)
\* legacy schema, latitude delivered as a string
RowKjfk == Row(JStr(Chars_KJFK), JStr("40.64"), JNum("-73.78"), JUndef, JStr(Chars_OBS))
\* latitude 1e999, which JSON.parse decodes to Infinity; no report text
RowPhnl == Row(JStr(Chars_PHNL), JNum("Infinity"), JNum("-157.92"), JUndef, JUndef)
\* coordinates null, position report
RowArp == Row(JStr(Chars_KXYZ), JNull, JNull, JStr(Chars_ARP), JUndef)

Body(rs, gen) == [rows |-> rs, generated_at_utc |-> gen]

\* the decoded bodies a backend endpoint may answer with
Bodies == { Body(JArr(<<RowKden, RowKjfk>>), JStr("2024-01-01T00:00Z")),
            Body(JArr(<<RowPhnl, RowArp>>), JStr("2024-01-01T00:01Z")),
            Body(JUndef, JUndef) }

\* data.rows || []
BodyRows(data) == Or(data.rows, JArr(<<>>)).v

\* data.generated_at_utc || null
BodyGeneratedAt(data) == Or(data.generated_at_utc, JNull)

----------------------------------------------------------------------------
(* What the views derive from rows.                                        *)

\* getRowText (variant 2)
GetRowText(r) == Or(Or(r.text, r.metar), JStr(<<>>)).v

\* what React renders for {x} in a text position
Rendered(x) == IF x.t \in {"undefined", "null"} THEN <<>> ELSE x.v

\* the report text a view shows for row r
DisplayedText(r) ==
  CASE variant = 1 -> Rendered(r.text)
    [] variant = 2 -> GetRowText(r)
    [] variant = 3 -> Rendered(r.metar)

\* rows.filter(...) of the home view
Markers(rs) ==
  SelectSeq(rs, LAMBDA r : TypeOf(r.lat) = "number" /\ TypeOf(r.lon) = "number")

\* the predicate of rows.find(...) in StationPage
StationMatches(r, id) ==
  ToUpperCase(Or(r.station, JStr(<<>>)).v) = ToUpperCase(Or(id, JStr(<<>>)).v)

\* rows.find(...): the index of the first matching row, 0 when there is none
FindRow(rs, id) ==
  IF \E i \in DOMAIN rs : StationMatches(rs[i], id)
    THEN CHOOSE i \in DOMAIN rs :
           StationMatches(rs[i], id) /\ \A j \in 1..(i - 1) : ~StationMatches(rs[j], id)
    ELSE 0

----------------------------------------------------------------------------
(* The home view: initial state.                                           *)

\* the options of the Top and Hours selectors tried: two of the four and of
\* the six the selectors offer, the initial value among them
TopOptions == {10, 25}
HoursOptions == {12, 24}

\* useState(...) of App and of the two views; nothing mounted, nothing in flight
InitCommon ==
  /\ mounted = FALSE
  /\ top = 25 /\ product = "METAR" /\ pirepHours = 24 /\ conusOnly = TRUE
  /\ rows = <<>> /\ generatedAt = JNull /\ loading = FALSE /\ err = ""
  /\ radarUrl = JNull /\ radarErr = ""
  /\ lbTimer = 0 /\ radarTimer = 0
  /\ lbCalls = {} /\ radarCalls = {}
  /\ lbSeq = 0 /\ radarSeq = 0 /\ lbApplied = 0 /\ radarApplied = 0 /\ lbFailed = 0
  /\ stMounted = FALSE /\ icao = JUndef /\ stProduct = "METAR"
  /\ stRows = <<>> /\ stErr = "" /\ stCalls = {} /\ stSeq = 0

Init == variant \in {1, 2, 3} /\ InitCommon

----------------------------------------------------------------------------
(* The leaderboard polling task.                                           *)

\* the in-flight fetches after the effect cleanup ran: they were started
\* before the stop
Stopped(calls) == {[c EXCEPT !.stopped = TRUE] : c \in calls}

\* the in-flight fetches after the view was torn down: its state setters
\* no longer reach a mounted component
Detached(calls) == {[c EXCEPT !.stopped = TRUE, !.live = FALSE] : c \in calls}

\* catch and finally of load(), for an error whose text is msg
LoadCatch(msg) ==
  /\ err' = msg
  /\ IF variant = 1
       THEN rows' = <<>> /\ generatedAt' = JNull
       ELSE UNCHANGED <<rows, generatedAt>>
  /\ loading' = FALSE

\* load() up to its await, under the parameters of the render that made it;
\* calls are the fetches in flight when it is invoked
StartLoad(calls, t, p, conus, hours) ==
  LET req == LoadRequest(t, p, conus, hours)
  IN  /\ lbSeq' = lbSeq + 1
      /\ IF req.threw
           THEN /\ LoadCatch(req.value)
                /\ lbCalls' = calls
                /\ lbApplied' = lbSeq + 1
                /\ lbFailed' = lbSeq + 1
           ELSE /\ loading' = TRUE
                /\ err' = ""
                /\ lbCalls' = calls \cup {[seq |-> lbSeq + 1, url |-> req.value,
                                          stopped |-> FALSE, live |-> TRUE]}
                /\ UNCHANGED <<rows, generatedAt, lbApplied, lbFailed>>

\* loadRadar() up to its await (variant 2)
StartRadar(calls) ==
  /\ radarSeq' = radarSeq + 1
  /\ radarErr' = ""
  /\ radarCalls' = calls \cup {[seq |-> radarSeq + 1, alive |-> TRUE]}
  /\ UNCHANGED <<radarUrl, radarApplied>>

\* the home view mounts: both effects run, each invokes its producer once
\* and sets its interval timer
Mount ==
  /\ ~mounted
  /\ lbSeq < MaxCalls
  /\ mounted' = TRUE
  /\ StartLoad(lbCalls, top, product, conusOnly, pirepHours)
  /\ lbTimer' = lbTimer + 1
  /\ IF variant = 2
       THEN /\ radarSeq < MaxRadarCalls
            /\ StartRadar(radarCalls)
            /\ radarTimer' = radarTimer + 1
       ELSE UNCHANGED <<radarSeq, radarErr, radarCalls, radarUrl, radarApplied, radarTimer>>
  /\ UNCHANGED <<variant, top, product, pirepHours, conusOnly, stationVars>>

\* the home view is torn down: both cleanups run, the state of the view goes
Unmount ==
  /\ mounted
  /\ mounted' = FALSE
  /\ lbTimer' = lbTimer - 1
  /\ radarTimer' = IF variant = 2 THEN radarTimer - 1 ELSE radarTimer
  /\ lbCalls' = Detached(lbCalls)
  /\ radarCalls' = {[c EXCEPT !.alive = FALSE] : c \in radarCalls}
  /\ rows' = <<>> /\ generatedAt' = JNull /\ loading' = FALSE /\ err' = ""
  /\ radarUrl' = JNull /\ radarErr' = ""
  /\ lbApplied' = 0 /\ radarApplied' = 0 /\ lbFailed' = 0
  /\ UNCHANGED <<variant, top, product, pirepHours, conusOnly, lbSeq, radarSeq, stationVars>>

\* an effect that returns no cleanup: on a dependency change the effect runs
\* again while the timer of its previous run stays set
RestartKeepsTimer(t, p, conus, hours) ==
  /\ mounted
  /\ lbSeq < MaxCalls
  /\ top' = t /\ product' = p /\ conusOnly' = conus /\ pirepHours' = hours
  /\ StartLoad(lbCalls, t, p, conus, hours)
  /\ lbTimer' = lbTimer + 1
  /\ UNCHANGED <<variant, mounted, radarVisible, radarTimer, radarCalls, radarSeq,
                 radarApplied, stationVars>>

\* a dependency of the leaderboard effect changed: its cleanup runs (the
\* timer is cleared), then the effect runs again under the new parameters
Restart(t, p, conus, hours) ==
  /\ mounted
  /\ lbSeq < MaxCalls
  /\ top' = t /\ product' = p /\ conusOnly' = conus /\ pirepHours' = hours
  /\ StartLoad(Stopped(lbCalls), t, p, conus, hours)
  /\ lbTimer' = (lbTimer - 1) + 1
  /\ UNCHANGED <<variant, mounted, radarVisible, radarTimer, radarCalls, radarSeq,
                 radarApplied, stationVars>>

\* the Top selector
SetTop(n) == n # top /\ Restart(n, product, conusOnly, pirepHours)

\* the Product selector (variant 1)
SetProduct(p) == variant = 1 /\ p # product /\ Restart(top, p, conusOnly, pirepHours)

\* the Hours selector, shown for PIREP (variant 1)
SetPirepHours(h) ==
  /\ variant = 1 /\ product = "PIREP" /\ h # pirepHours
  /\ Restart(top, product, conusOnly, h)

\* the CONUS checkbox, shown for METAR (variant 1)
SetConusOnly ==
  /\ variant = 1 /\ product = "METAR"
  /\ Restart(top, product, ~conusOnly, pirepHours)

\* load() invoked on a mounted view whose effect stays as it is
Reload ==
  /\ mounted
  /\ lbSeq < MaxCalls
  /\ StartLoad(lbCalls, top, product, conusOnly, pirepHours)
  /\ UNCHANGED <<variant, mounted, top, product, pirepHours, conusOnly, lbTimer,
                 radarVisible, radarTimer, radarCalls, radarSeq, radarApplied,
                 stationVars>>

\* the interval timer of the leaderboard effect fires
LbTick == lbTimer > 0 /\ Reload

\* the Refresh button
Refresh == Reload

\* what every completion of a leaderboard fetch leaves alone
LbSettleFrame ==
  UNCHANGED <<variant, mounted, top, product, pirepHours, conusOnly, lbTimer, lbSeq,
              radarVisible, radarTimer, radarCalls, radarSeq, radarApplied, stationVars>>

\* a successful load() that sets the rows and leaves generatedAt alone
LbResolveRowsOnly(c, data) ==
  /\ c \in lbCalls
  /\ lbCalls' = lbCalls \ {c}
  /\ IF c.live
       THEN /\ rows' = BodyRows(data)
            /\ loading' = FALSE
            /\ lbApplied' = c.seq
            /\ UNCHANGED <<generatedAt, err, lbFailed>>
       ELSE UNCHANGED <<lbVisible, lbApplied, lbFailed>>
  /\ LbSettleFrame

\* the fetch of call c answers 2xx with the decoded body data
LbResolve(c, data) ==
  /\ c \in lbCalls
  /\ lbCalls' = lbCalls \ {c}
  /\ IF c.live
       THEN /\ rows' = BodyRows(data)
            /\ generatedAt' = BodyGeneratedAt(data)
            /\ loading' = FALSE
            /\ lbApplied' = c.seq
            /\ UNCHANGED <<err, lbFailed>>
       ELSE UNCHANGED <<lbVisible, lbApplied, lbFailed>>
  /\ LbSettleFrame

\* a failing load() that also clears the interval timer
LbRejectClearsTimer(c, f) ==
  /\ c \in lbCalls
  /\ lbCalls' = lbCalls \ {c}
  /\ IF c.live
       THEN LoadCatch(FailureText(f)) /\ lbApplied' = c.seq /\ lbFailed' = c.seq
       ELSE UNCHANGED <<lbVisible, lbApplied, lbFailed>>
  /\ lbTimer' = 0
  /\ UNCHANGED <<variant, mounted, top, product, pirepHours, conusOnly, lbSeq,
                 radarVisible, radarTimer, radarCalls, radarSeq, radarApplied, stationVars>>

\* the fetch of call c fails: no answer, or a non-2xx answer
LbReject(c, f) ==
  /\ c \in lbCalls
  /\ lbCalls' = lbCalls \ {c}
  /\ IF c.live
       THEN LoadCatch(FailureText(f)) /\ lbApplied' = c.seq /\ lbFailed' = c.seq
       ELSE UNCHANGED <<lbVisible, lbApplied, lbFailed>>
  /\ LbSettleFrame

----------------------------------------------------------------------------
(* The radar polling task (variant 2).                                     *)

RadarFrame ==
  UNCHANGED <<variant, mounted, top, product, pirepHours, conusOnly, lbVisible,
              lbTimer, lbCalls, lbSeq, lbApplied, lbFailed, radarTimer, stationVars>>

\* the interval timer of the radar effect fires
RadarTick ==
  /\ radarTimer > 0
  /\ radarSeq < MaxRadarCalls
  /\ StartRadar(radarCalls)
  /\ RadarFrame

\* a catch of loadRadar() that also drops the tile template
RadarCatchClearsUrl(c, msg) ==
  IF c.alive
    THEN radarErr' = msg /\ radarApplied' = c.seq /\ radarUrl' = JNull
    ELSE UNCHANGED <<radarVisible, radarApplied>>

\* catch of loadRadar(), for an error whose text is msg
RadarCatch(c, msg) ==
  IF c.alive
    THEN radarErr' = msg /\ radarApplied' = c.seq /\ UNCHANGED radarUrl
    ELSE UNCHANGED <<radarVisible, radarApplied>>

\* the metadata fetch of call c answers 2xx with the decoded document data
RadarResolve(c, data) ==
  LET url == FetchRainViewerLatestTileUrl(data, RainViewerSize, RainViewerColor,
                                          RainViewerOptions)
  IN  /\ c \in radarCalls
      /\ radarCalls' = radarCalls \ {c}
      /\ IF url.threw
           THEN RadarCatch(c, url.value)
           ELSE IF c.alive
                  THEN /\ radarUrl' = JStr(url.value)
                       /\ radarApplied' = c.seq
                       /\ UNCHANGED radarErr
                  ELSE UNCHANGED <<radarVisible, radarApplied>>
      /\ UNCHANGED radarSeq
      /\ RadarFrame

\* a failing loadRadar() that also blanks the leaderboard
RadarRejectBlanksRows(c, f) ==
  /\ c \in radarCalls
  /\ radarCalls' = radarCalls \ {c}
  /\ RadarCatch(c, RadarFailureText(f))
  /\ rows' = <<>> /\ generatedAt' = JNull
  /\ UNCHANGED <<variant, mounted, top, product, pirepHours, conusOnly, err, loading,
                 lbTimer, lbCalls, lbSeq, lbApplied, lbFailed, radarTimer, radarSeq,
                 stationVars>>

\* the metadata fetch of call c fails
RadarReject(c, f) ==
  /\ c \in radarCalls
  /\ radarCalls' = radarCalls \ {c}
  /\ RadarCatch(c, RadarFailureText(f))
  /\ UNCHANGED radarSeq
  /\ RadarFrame

Next ==
  \/ Mount
  \/ Unmount
  \/ \E n \in TopOptions : SetTop(n)
  \/ \E p \in KnownProducts : SetProduct(p)
  \/ \E h \in HoursOptions : SetPirepHours(h)
  \/ SetConusOnly
  \/ LbTick
  \/ Refresh
  \/ \E c \in lbCalls, data \in Bodies : LbResolve(c, data)
  \/ \E c \in lbCalls, f \in FetchFailures : LbReject(c, f)
  \/ RadarTick
  \/ \E c \in radarCalls, data \in MetaDocs : RadarResolve(c, data)
  \/ \E c \in radarCalls, f \in FetchFailures : RadarReject(c, f)

Spec == Init /\ [][Next]_vars

----------------------------------------------------------------------------
(* The station permalink view (variants 1 and 2).  Its radar task is the   *)
(* code of the home view's, line for line, and is modelled there.          *)

\* the :icao route parameters tried
Icaos == {JStr(Chars_KDEN), JStr(Chars_kjfk_sp), JStr(Chars_KXYZ)}

\* qs.get("product"): absent, or the text given in the link
QueryProducts == {JNull, JStr(Chars_METAR), JStr(Chars_taf), JStr(Chars_PIREP),
                  JStr(Chars_SIGMET)}

\* (qs.get("product") || "METAR").toUpperCase()
QueryProduct(q) == Join(ToUpperCase(Or(q, JStr(Chars_METAR)).v))

StationTopV1 == 200
StationHoursV1 == 24
StationTopV2 == 100

\* the request the effect of StationPage issues
StationRequest(p) ==
  IF variant = 1 THEN FetchProduct(p, StationTopV1, TRUE, StationHoursV1)
  ELSE FetchLeaderboard(StationTopV2)

\* the async function of the fetching effect, up to its await
StartStationFetch(calls, p) ==
  LET req == StationRequest(p)
  IN  /\ stSeq' = stSeq + 1
      /\ IF req.threw
           THEN stErr' = req.value /\ stCalls' = calls
           ELSE /\ stCalls' = calls \cup {[seq |-> stSeq + 1, url |-> req.value,
                                          live |-> TRUE]}
                /\ UNCHANGED stErr

\* /station/:icao?product=q is opened
StationOpen(id, q) ==
  /\ ~stMounted
  /\ stSeq < MaxStationCalls
  /\ stMounted' = TRUE
  /\ icao' = id
  /\ stProduct' = QueryProduct(q)
  /\ StartStationFetch(stCalls, QueryProduct(q))
  /\ UNCHANGED <<variant, homeVars, stRows>>

\* the route parameter changes while the view stays mounted
StationGoto(id) ==
  /\ stMounted
  /\ id.v # icao.v
  /\ icao' = id
  /\ UNCHANGED <<variant, homeVars, stMounted, stProduct, stRows, stErr, stCalls, stSeq>>

\* the query string changes the product: the fetching effect runs again
StationQuery(q) ==
  /\ stMounted
  /\ variant = 1
  /\ QueryProduct(q) # stProduct
  /\ stSeq < MaxStationCalls
  /\ stProduct' = QueryProduct(q)
  /\ StartStationFetch(stCalls, QueryProduct(q))
  /\ UNCHANGED <<variant, homeVars, stMounted, icao, stRows>>

\* Back: the station view is torn down
StationBack ==
  /\ stMounted
  /\ stMounted' = FALSE
  /\ icao' = JUndef /\ stProduct' = "METAR"
  /\ stRows' = <<>> /\ stErr' = ""
  /\ stCalls' = {[c EXCEPT !.live = FALSE] : c \in stCalls}
  /\ UNCHANGED <<variant, homeVars, stSeq>>

\* the fetch of call c answers 2xx with the decoded body data
StationResolve(c, data) ==
  /\ c \in stCalls
  /\ stCalls' = stCalls \ {c}
  /\ stRows' = IF c.live THEN BodyRows(data) ELSE stRows
  /\ UNCHANGED <<variant, homeVars, stMounted, icao, stProduct, stErr, stSeq>>

\* the fetch of call c fails
StationReject(c, f) ==
  /\ c \in stCalls
  /\ stCalls' = stCalls \ {c}
  /\ stErr' = IF c.live THEN FailureText(f) ELSE stErr
  /\ UNCHANGED <<variant, homeVars, stMounted, icao, stProduct, stRows, stSeq>>

\* const row = rows.find(...): the row the station view shows, 0 for none
StationRow == FindRow(stRows, icao)

InitStation == variant \in {1, 2} /\ InitCommon

NextStation ==
  \/ \E id \in Icaos, q \in QueryProducts : StationOpen(id, q)
  \/ \E id \in Icaos : StationGoto(id)
  \/ \E q \in QueryProducts : StationQuery(q)
  \/ StationBack
  \/ \E c \in stCalls, data \in Bodies : StationResolve(c, data)
  \/ \E c \in stCalls, f \in FetchFailures : StationReject(c, f)

SpecStation == InitStation /\ [][NextStation]_vars

----------------------------------------------------------------------------
(* Steps of the two polling tasks, for the properties below.               *)

\* call c of the leaderboard task completes, either way
LbSettles(c) ==
  \/ \E data \in Bodies : LbResolve(c, data)
  \/ \E f \in FetchFailures : LbReject(c, f)

\* call c of the radar task completes, either way
RadarSettles(c) ==
  \/ \E data \in MetaDocs : RadarResolve(c, data)
  \/ \E f \in FetchFailures : RadarReject(c, f)

\* a step of the leaderboard task on a view that stays as it is: a load()
\* starts (tick, Refresh, restart of the effect) or a fetch of it completes
LbStep == mounted' = mounted /\ (lbSeq' # lbSeq \/ lbCalls' # lbCalls)

\* a step of the radar task on a view that stays as it is: a loadRadar()
\* starts or a fetch of it completes
RadarStep == mounted' = mounted /\ (radarSeq' # radarSeq \/ radarCalls' # radarCalls)

----------------------------------------------------------------------------
(* Polling: cancellation, ordering, failure.                               *)

\* C1: once a polling task was stopped (its effect cleanup ran), the
\* completion of a fetch started before the stop changes none of rows,
\* generatedAt, err, loading (leaderboard) and none of radarUrl, radarErr
\* (radar).
C1_StoppedFetchChangesNothing ==
  [][ /\ \A c \in lbCalls : (c.stopped /\ LbSettles(c) => UNCHANGED lbVisible)
      /\ \A c \in radarCalls :
           (~c.alive /\ RadarSettles(c) => UNCHANGED radarVisible)
    ]_vars

\* C2: of overlapping fetches of one running task, the outcome of an
\* earlier-started call is never applied after the outcome of a
\* later-started one: a call that completes after a later-started call was
\* applied changes nothing visible.
C2_LatestStartedWins ==
  [][ /\ \A c \in lbCalls :
           (~c.stopped /\ c.seq < lbApplied /\ LbSettles(c)
              => UNCHANGED <<lbVisible, lbApplied>>)
      /\ \A c \in radarCalls :
           (c.alive /\ c.seq < radarApplied /\ RadarSettles(c)
              => UNCHANGED <<radarVisible, radarApplied>>)
    ]_vars

\* C3: a leaderboard fetch that fails while rows of an earlier successful
\* fetch are displayed sets err to a non-empty message and keeps rows and
\* generatedAt.
C3_FailureKeepsRows ==
  [][ \A c \in lbCalls, f \in FetchFailures :
        c.live /\ rows # <<>> /\ LbReject(c, f)
          => err' # "" /\ rows' = rows /\ generatedAt' = generatedAt
    ]_vars

\* C4: the failure of one polling tick is stored as a non-empty message
\* and leaves the interval timer set; while the view is mounted the timer of
\* each task is set and its next firing can start a fetch (up to the bound
\* on calls); a later successful completion still sets rows and generatedAt
\* from its response, whatever err holds.
C4_FailureKeepsPolling ==
  /\ [][ /\ lbCalls' # lbCalls =>
              /\ \A c \in lbCalls, f \in FetchFailures :
                   (LbReject(c, f) => (lbTimer' = lbTimer /\ (c.live => err' # "")))
              /\ \A c \in lbCalls, data \in Bodies :
                   (c.live /\ LbResolve(c, data)
                      => (rows' = BodyRows(data)
                          /\ generatedAt' = BodyGeneratedAt(data)))
         /\ radarCalls' # radarCalls =>
              \A c \in radarCalls, f \in FetchFailures :
                (RadarReject(c, f)
                   => (radarTimer' = radarTimer /\ (c.alive => radarErr' # "")))
       ]_vars
  /\ [](mounted => lbTimer > 0 /\ (variant = 2 => radarTimer > 0))
  /\ [](lbTimer > 0 /\ lbSeq < MaxCalls => ENABLED LbTick)
  /\ [](radarTimer > 0 /\ radarSeq < MaxRadarCalls => ENABLED RadarTick)

\* C4 witness: a tick failed, and a call started after it completed
\* successfully and set the rows while the timer is still set.
C4_Witness ==
  /\ lbTimer > 0
  /\ lbFailed > 0
  /\ lbApplied > lbFailed
  /\ rows # <<>>

\* C5: no step of the radar task changes rows, generatedAt, err or loading,
\* no step of the leaderboard task changes radarUrl or radarErr, and whatever
\* the radar task is doing, the leaderboard timer can start a fetch (up to
\* the bound on calls) and every leaderboard fetch in flight can complete.
C5_TasksIndependent ==
  /\ [][ /\ (RadarStep => UNCHANGED lbVisible)
         /\ (LbStep => UNCHANGED radarVisible) ]_vars
  /\ [](lbTimer > 0 /\ lbSeq < MaxCalls => ENABLED LbTick)
  /\ [](\A c \in lbCalls : ENABLED LbSettles(c))

\* C5 witness: a radar fetch is stalled and another has failed, while a
\* leaderboard call after the first has applied its rows.
C5_Witness ==
  /\ variant = 2
  /\ radarCalls # {}
  /\ radarErr # ""
  /\ lbApplied >= 2
  /\ rows # <<>>

----------------------------------------------------------------------------
(* Dispatcher, station lookup, markers, report text, radar template.       *)

\* C6: in the station view of variant 1, opening a link (or changing its
\* query) whose product is none of METAR, TAF, PIREP issues no request (no
\* fetch is added to those in flight), stores the unknown-product error and
\* leaves the rows as they were.
C6_UnknownProductFailsBeforeFetch ==
  [][ \A q \in QueryProducts :
        (/\ variant = 1
         /\ QueryProduct(q) \notin KnownProducts
         /\ ((\E id \in Icaos : StationOpen(id, q)) \/ StationQuery(q)))
          => /\ stCalls' = stCalls
             /\ stErr' = "Error: Unknown product: " \o QueryProduct(q)
             /\ stRows' = stRows
    ]_vars

\* C6 witness: the station view is open on product SIGMET, shows the
\* unknown-product error and has no fetch in flight.
C6_Witness ==
  /\ stMounted
  /\ stProduct = "SIGMET"
  /\ stErr = "Error: Unknown product: SIGMET"
  /\ stCalls = {}

IsSpace(c) == c \in {" ", "\t", "\n", "\r"}

RECURSIVE TrimStart(_)
TrimStart(s) == IF s # <<>> /\ IsSpace(Head(s)) THEN TrimStart(Tail(s)) ELSE s

RECURSIVE TrimEnd(_)
TrimEnd(s) ==
  IF s # <<>> /\ IsSpace(s[Len(s)]) THEN TrimEnd(SubSeq(s, 1, Len(s) - 1)) ELSE s

\* String.prototype.trim
Trim(s) == TrimEnd(TrimStart(s))

\* station of row r equals identifier id, both trimmed, case-insensitively
TrimmedMatch(r, id) ==
  ToUpperCase(Trim(Or(r.station, JStr(<<>>)).v)) = ToUpperCase(Trim(Or(id, JStr(<<>>)).v))

\* the index of the first row of rs that matches id so, 0 when none does
FirstTrimmedMatch(rs, id) ==
  IF \E i \in DOMAIN rs : TrimmedMatch(rs[i], id)
    THEN CHOOSE i \in DOMAIN rs :
           TrimmedMatch(rs[i], id) /\ \A j \in 1..(i - 1) : ~TrimmedMatch(rs[j], id)
    ELSE 0

\* C7: the row the station view resolves is the first row whose station
\* equals the requested identifier after both are trimmed and compared
\* case-insensitively, and none when no row matches so.
C7_ResolvesTrimmedIdentifier ==
  stMounted => StationRow = FirstTrimmedMatch(stRows, icao)

\* C8: the markers are exactly the rows whose lat and lon are both finite
\* numbers, in the order of rows.
C8_MarkersIffFiniteCoordinates ==
  Markers(rows) =
    SelectSeq(rows, LAMBDA r : IsFiniteNumber(r.lat) /\ IsFiniteNumber(r.lon))

\* a report text field that holds a non-empty string
Populated(x) == x.t = "string" /\ Len(x.v) # 0

\* C9: the report text shown for every row is its text when populated,
\* otherwise its metar when populated, otherwise empty.
C9_TextThenMetarThenEmpty ==
  \A i \in DOMAIN rows :
    DisplayedText(rows[i]) =
      IF Populated(rows[i].text) THEN rows[i].text.v
      ELSE IF Populated(rows[i].metar) THEN rows[i].metar.v
      ELSE <<>>

\* a metadata document with a usable host and a non-empty past list
HostAndFrames(d) ==
  /\ d.host.t = "string" /\ Len(d.host.v) # 0
  /\ d.radar.t = "object"
  /\ d.radar.v.past.t = "array" /\ Len(d.radar.v.past.v) # 0

\* the last element of past
LastFrame(d) == d.radar.v.past.v[Len(d.radar.v.past.v)]

\* C10: when a radar fetch of the mounted view answers a document with a
\* usable host and a non-empty past list, radarUrl becomes host, then the
\* path of the last element of past, then "/256/{z}/{x}/{y}/2/1_1.png" with
\* the placeholders literal; when that last element has no path no URL is
\* set, so never one built from an earlier element.
C10_TemplateFromLastFrame ==
  [][ radarCalls' # radarCalls =>
      \A c \in radarCalls, d \in MetaDocs :
        (c.alive /\ HostAndFrames(d) /\ RadarResolve(c, d))
          => IF Populated(LastFrame(d).path)
               THEN radarUrl' = JStr(d.host.v \o LastFrame(d).path.v \o "/" \o "256"
                                     \o "/{z}/{x}/{y}/" \o "2" \o "/" \o "1_1" \o ".png")
               ELSE radarUrl' = radarUrl
    ]_vars

\* C10 witness: the document {host: "https://x", past: [/a, /b]} was
\* resolved and the template of frame /b is in radarUrl.
C10_Witness ==
  /\ mounted
  /\ radarApplied > 0
  /\ radarUrl = JStr("https://x/b/256/{z}/{x}/{y}/2/1_1.png")

----------------------------------------------------------------------------
(* Radar metadata failures, PIREP filter, snapshot, scheduling, flags.     *)

\* a metadata document the resolver cannot build a template from: no usable
\* host, or past absent, not a list or empty, or no path in its last element
Unusable(d) == ~HostAndFrames(d) \/ ~Populated(LastFrame(d).path)

\* C11: for every metadata document with no usable host, or whose radar.past
\* is absent, not a list or empty, or whose last element has no path,
\* fetchRainViewerLatestTileUrl throws and returns no URL; when a radar fetch
\* answers such a document radarUrl stays as it was and, on a mounted view,
\* radarErr becomes the message of the error.
C11_UnusableDocumentFails ==
  /\ [](\A d \in MetaDocs :
          Unusable(d) =>
            FetchRainViewerLatestTileUrl(d, RainViewerSize, RainViewerColor,
                                         RainViewerOptions)
              = Thrown("Error: RainViewer response missing host/path"))
  /\ [][ radarCalls' # radarCalls =>
         \A c \in radarCalls, d \in MetaDocs :
           (Unusable(d) /\ RadarResolve(c, d))
             => /\ radarUrl' = radarUrl
                /\ (c.alive => radarErr' = "Error: RainViewer response missing host/path")
       ]_vars

\* C11 witness: the first radar fetch of a mounted view answered an unusable
\* document: the error is shown and no URL was set.
C11_Witness ==
  /\ mounted
  /\ radarApplied = 1
  /\ radarErr = "Error: RainViewer response missing host/path"
  /\ radarUrl = JNull

\* the text field of row r, empty when the row has none
TextOf(r) == IF r.text.t = "string" THEN r.text.v ELSE <<>>

\* text t, trimmed and case-normalized, begins with ARP or is empty
ArpOrEmpty(t) ==
  LET n == ToUpperCase(Trim(t))
  IN  n = <<>> \/ (Len(n) >= 3 /\ SubSeq(n, 1, 3) = <<"A", "R", "P">>)

\* the rows of rs that are genuine pilot reports, in their order
PirepFilter(rs) == SelectSeq(rs, LAMBDA r : ~ArpOrEmpty(TextOf(r)))

\* url is a request for the PIREP product
IsPirepRequest(url) ==
  \E t \in TopOptions, h \in HoursOptions : url = FetchProduct("PIREP", t, TRUE, h).value

\* C12: when a fetch of the mounted view succeeds, the rows made visible are
\* those of the response without the rows whose trimmed, upper-cased text
\* begins with ARP or is empty, in their order, if the request was for PIREP,
\* and all rows of the response if it was for METAR or TAF.
C12_PirepRowsFiltered ==
  [][ lbCalls' # lbCalls =>
      \A c \in lbCalls, data \in Bodies :
        (c.live /\ LbResolve(c, data))
          => rows' = IF IsPirepRequest(c.url)
                       THEN PirepFilter(BodyRows(data))
                       ELSE BodyRows(data)
    ]_vars

\* C13: in every reachable state the pair (rows, generatedAt) is the initial
\* pair ([], null) or the rows and generated_at_utc of one single response:
\* never the rows of one response with the generatedAt of another.
C13_SnapshotFromOneResponse ==
  <<rows, generatedAt>> \in
    {<<<<>>, JNull>>} \cup {<<BodyRows(b), BodyGeneratedAt(b)>> : b \in Bodies}

\* C13 witness: a later-started fetch failed, then an earlier-started one
\* completed out of order with the rows and the time of the second body,
\* and both are displayed.
C13_Witness ==
  /\ mounted
  /\ lbApplied > 0
  /\ lbFailed > lbApplied
  /\ rows = <<RowPhnl, RowArp>>
  /\ generatedAt = JStr("2024-01-01T00:01Z")

\* C14: mounting the view invokes each producer once and sets one interval
\* timer per task; a change of a polling parameter invokes load() once and
\* leaves one timer set; every other invocation is one call started on a
\* mounted view whose timer is set; an unmounted view has no timer set and
\* its timers start no invocation; no task ever has more than one interval
\* timer set.
C14_OneTimerPerTask ==
  /\ [][ /\ (~mounted /\ mounted')
              => /\ lbSeq' = lbSeq + 1 /\ lbTimer' = 1
                 /\ (variant = 2 => radarSeq' = radarSeq + 1 /\ radarTimer' = 1)
         /\ (mounted /\ mounted'
               /\ <<top, product, pirepHours, conusOnly>>'
                    # <<top, product, pirepHours, conusOnly>>)
              => lbSeq' = lbSeq + 1 /\ lbTimer' = 1
         /\ (lbSeq' # lbSeq => lbSeq' = lbSeq + 1 /\ mounted' /\ lbTimer' = 1)
         /\ (radarSeq' # radarSeq
               => radarSeq' = radarSeq + 1 /\ mounted' /\ radarTimer' = 1)
       ]_vars
  /\ [](lbTimer \in {0, 1} /\ radarTimer \in {0, 1})
  /\ [](~mounted => /\ lbTimer = 0 /\ radarTimer = 0
                    /\ ~ENABLED LbTick /\ ~ENABLED RadarTick)

\* C14 witness: variant 2 was mounted, Top was changed, then a firing of
\* each timer invoked its producer; one timer per task is set.
C14_Witness ==
  /\ variant = 2
  /\ mounted
  /\ top # 25
  /\ lbSeq = 3 /\ lbTimer = 1
  /\ radarSeq = 2 /\ radarTimer = 1

\* C15: on a mounted view loading is true exactly when a leaderboard fetch
\* that load() of this view started is still in flight.
C15_LoadingIffInFlight ==
  mounted => (loading <=> \E c \in lbCalls : c.live)

\* C16: err is non-empty only when the leaderboard fetch whose outcome was
\* applied last failed; once a fetch completed successfully and applied its
\* rows err is empty, also when an overlapping fetch failed before it.
C16_ErrOnlyAfterFailure ==
  err # "" => (lbFailed > 0 /\ lbApplied = lbFailed)

\* the templates the resolver returns for the documents it accepts
Templates ==
  {FetchRainViewerLatestTileUrl(d, RainViewerSize, RainViewerColor,
                                RainViewerOptions).value :
     d \in {x \in MetaDocs : ~Unusable(x)}}

\* C17: radarUrl is null or a template the resolver returned; while the view
\* stays mounted no step of the radar task turns a non-null radarUrl into
\* null; a radar fetch of the mounted view that fails (no answer, a non-2xx
\* answer or an unusable document) stores its message in radarErr and leaves
\* radarUrl as it was.
C17_RadarUrlKept ==
  /\ [](radarUrl = JNull \/ (radarUrl.t = "string" /\ radarUrl.v \in Templates))
  /\ [][ RadarStep =>
         /\ (radarUrl # JNull => radarUrl' # JNull)
         /\ \A c \in radarCalls :
              c.alive =>
                /\ \A f \in FetchFailures :
                     RadarReject(c, f)
                       => radarErr' = RadarFailureText(f) /\ radarUrl' = radarUrl
                /\ \A d \in MetaDocs :
                     (Unusable(d) /\ RadarResolve(c, d))
                       => radarErr' # "" /\ radarUrl' = radarUrl
       ]_vars

\* C17 witness: the first radar fetch set a template, the second failed:
\* its message is shown beside the template of the first.
C17_Witness ==
  /\ mounted
  /\ radarApplied = 2
  /\ radarErr # ""
  /\ radarUrl # JNull

====
